---- MODULE Spec2Model ----
(***************************************************************************)
(* Timed polling-and-export acquisition loop of electrochemical_eval.      *)
(*                                                                         *)
(* Two specifications over one set of variables:                           *)
(*   Spec          one session of main() (CIC_pH_record_data.py) driving a *)
(*                 UnifiedDataCollector: instrument initialisation, the    *)
(*                 phase sequencer, polling, window close, Ctrl+C,         *)
(*                 export and teardown.                                    *)
(*   SpecCollector the public methods of the two collector classes         *)
(*                 (UnifiedDataCollector, DataCollector) called in any     *)
(*                 order with arbitrary instrument replies.                *)
(*                                                                         *)
(* Python values are tagged tuples: None, Num(n), Str(s); an optional      *)
(* reading is None or Some(record).  Time is counted in poll periods.      *)
(***************************************************************************)
EXTENDS Integers, Sequences, FiniteSets, TLC

VARIABLES
    impl,               \* which class is under test: "unified" | "legacy"
    numPulses,          \* waveformParameters["numPulses"]
    anodicFirst,        \* waveformParameters["anodicFirst"]
    use_ph_meter,       \* collector.use_ph_meter
    use_keithley,       \* collector.use_keithley
    ph_meter,           \* collector.ph_meter: "None" | "open" | "closed"
    keithley,           \* collector.keithley: "None" | "open" | "closed"
    data_buffer,        \* collector.data_buffer
    experiment_running, \* collector.experiment_running
    data_saved,         \* collector.data_saved
    pc,                 \* position of main()
    cycle,              \* loop variable of main() (0-based)
    phase,              \* 1 first pulse, 2 second pulse, 3 inter-pulse interval
    start_time,         \* start_time of the current polling sub-loop
    ph_data,            \* local of collect_data_point
    keithley_data,      \* local of collect_data_point
    clock,              \* time.time(), in poll periods
    files,              \* CSV/PNG pairs on disk: the rows of each CSV
    phaseLog,           \* history: phase executions of the sequencer
    readLog,            \* history: what the two readers returned, per sample
    io,                 \* history: counters of effectful port operations
    cause,              \* history: how the session terminated
    intAt,              \* history: where the try block of main() was left
                        \* by KeyboardInterrupt or by an error
    stopSnap,           \* history: snapshot taken when experiment_running fell
    faults,             \* number of instrument faults injected so far
    lastOp              \* history: the last two collector methods called

vars == <<impl, numPulses, anodicFirst, use_ph_meter, use_keithley, ph_meter,
          keithley, data_buffer, experiment_running, data_saved, pc, cycle,
          phase, start_time, ph_data, keithley_data, clock, files, phaseLog,
          readLog, io, cause, intAt, stopSnap, faults, lastOp>>

config == <<impl, numPulses, anodicFirst>>
locals == <<cycle, phase, start_time, ph_data, keithley_data>>

----------------------------------------------------------------------------
(* Bounds of the model *)

MaxPulses == 2          \* numPulses ranges over 0..MaxPulses
AnodicTicks == 2        \* pulseWidth["anodic"], in poll periods
CathodicTicks == 1      \* pulseWidth["cathodic"], in poll periods
RestTicks == 1          \* interPulseInterval, in poll periods
MaxFaults == 1          \* instrument faults injected per session
MaxSamples == 3         \* collect_data_point calls in SpecCollector
EpochTicks == 100       \* time.time() when the collector is built, in poll periods

----------------------------------------------------------------------------
(* Python values *)

None == <<"None">>
Num(n) == <<"num", n>>
Str(s) == <<"str", s>>
IntVal(n) == <<"int", n>>
Some(r) == <<"some", r>>
Value(opt) == opt[2]


----------------------------------------------------------------------------
(* Instrument replies *)

\* One line delivered by the pH meter port, or a read timeout.
PhLine(kind, p, t) == [kind |-> kind, pH |-> p, temperature |-> t]
PhLineKinds == {"full", "partial", "header", "garbage", "timeout"}

\* The outcome of the write + three queries of one source-measure poll.
KeithleyReply(ok, v, c) == [ok |-> ok, voltage |-> v, current |-> c]

----------------------------------------------------------------------------
(* SampleReaders *)

\* What a reader call yields when an exception leaves it instead of a value.
Raised == <<"raised">>

\* UnifiedDataCollector.read_ph_data: one read, one regular expression that
\* needs the pH, mV, temperature and timestamp parts of the line; every
\* exception is caught and yields None.
read_ph_data(use, port, line) ==
    IF ~use \/ port = "None" THEN None
    ELSE IF port = "closed" \/ line.kind = "timeout" THEN None
    ELSE IF line.kind = "full"
         THEN Some([pH |-> Num(line.pH),
                    temperature |-> Num(line.temperature),
                    timestamp |-> Str("meter")])
         ELSE None

\* read_keithley_data without its except clause: a failing round trip
\* leaves the reader as an exception
read_keithley_data_uncaught(use, port, reply, timer) ==
    IF ~use \/ port = "None" THEN None
    ELSE IF port = "closed" \/ ~reply.ok THEN Raised
    ELSE Some([voltage |-> Num(reply.voltage),
               current |-> Num(reply.current),
               elapsed_time |-> Num(timer)])

\* UnifiedDataCollector.read_keithley_data: any failing round trip is
\* caught and yields None.
read_keithley_data(use, port, reply, timer) ==
    IF ~use \/ port = "None" THEN None
    ELSE IF port = "closed" \/ ~reply.ok THEN None
    ELSE Some([voltage |-> Num(reply.voltage),
               current |-> Num(reply.current),
               elapsed_time |-> Num(timer)])

\* DataCollector.read_ph_data: up to five reads; header lines, unparsable
\* lines and read errors are skipped; the pH and temperature parts suffice.
MaxAttempts == 5

RECURSIVE DC_read_attempt(_, _, _)
DC_read_attempt(port, lines, attempt) ==
    IF attempt > MaxAttempts THEN None
    ELSE LET line == lines[attempt] IN
         IF port = "closed" \/ line.kind = "timeout"
         THEN DC_read_attempt(port, lines, attempt + 1)
         ELSE IF line.kind = "header"
         THEN DC_read_attempt(port, lines, attempt + 1)
         ELSE IF line.kind \in {"full", "partial"}
         THEN Some([pH |-> Num(line.pH),
                    temperature |-> Num(line.temperature),
                    timestamp |-> Str("local")])
         ELSE DC_read_attempt(port, lines, attempt + 1)

DC_read_ph_data(use, port, lines) ==
    IF ~use \/ port = "None" THEN None
    ELSE DC_read_attempt(port, lines, 1)

\* DataCollector.read_keithley_data: no enable guard; a missing or closed
\* port raises inside the try and yields None.
DC_read_keithley_data(port, reply, timer) ==
    IF port \in {"None", "closed"} \/ ~reply.ok THEN None
    ELSE Some([voltage |-> Num(reply.voltage),
               current |-> Num(reply.current),
               elapsed_time |-> Num(timer)])

----------------------------------------------------------------------------
(* Port operations of the readers *)

\* What one reader call did: the value it returned and the operations it
\* performed on its port, in order.
ReaderCall(value, ops) == [value |-> value, ops |-> ops]

\* The write and the three queries of one source-measure poll; a failing
\* round trip ends at the operation that raised.
KeithleyOps(reply) ==
    IF reply.ok THEN <<"k_write", "k_query", "k_query", "k_query">>
    ELSE <<"k_write">>

\* read_ph_data without the test of the enable flag
read_ph_data_call_unguarded(use, port, line) ==
    ReaderCall(read_ph_data(TRUE, port, line),
               IF port = "None" THEN <<>> ELSE <<"ph_read">>)

\* UnifiedDataCollector.read_ph_data (lines 123-124, 127): nothing is read
\* when the flag is false or no port object exists, else one read.
read_ph_data_call(use, port, line) ==
    ReaderCall(read_ph_data(use, port, line),
               IF ~use \/ port = "None" THEN <<>> ELSE <<"ph_read">>)

\* UnifiedDataCollector.read_keithley_data (lines 146-147, 149-158)
read_keithley_data_call(use, port, reply, timer) ==
    ReaderCall(read_keithley_data(use, port, reply, timer),
               IF ~use \/ port = "None" THEN <<>> ELSE KeithleyOps(reply))

\* The retry loop of read_ph_data with header lines not counted as attempts
RECURSIVE DC_read_ph_run_skip_headers(_, _, _)
DC_read_ph_run_skip_headers(port, lines, attempt) ==
    IF attempt > MaxAttempts \/ lines = <<>> THEN ReaderCall(None, <<>>)
    ELSE LET line == Head(lines)
             rest == DC_read_ph_run_skip_headers(
                        port, Tail(lines),
                        IF line.kind = "header" THEN attempt
                                                ELSE attempt + 1)
         IN  IF port # "closed" /\ line.kind \in {"full", "partial"}
             THEN ReaderCall(Some([pH |-> Num(line.pH),
                                   temperature |-> Num(line.temperature),
                                   timestamp |-> Str("local")]),
                             <<"ph_read">>)
             ELSE ReaderCall(rest.value, <<"ph_read">> \o rest.ops)

\* The retry loop of DataCollector.read_ph_data (lines 186-205) from attempt
\* number attempt on, lines being what the next reads of the port deliver:
\* every iteration reads once, and a header line, an unparsable line and a
\* read error all use up their iteration.
RECURSIVE DC_read_ph_run(_, _, _)
DC_read_ph_run(port, lines, attempt) ==
    IF attempt > MaxAttempts \/ lines = <<>> THEN ReaderCall(None, <<>>)
    ELSE LET line == Head(lines)
             rest == DC_read_ph_run(port, Tail(lines), attempt + 1)
         IN  IF port # "closed" /\ line.kind \in {"full", "partial"}
             THEN ReaderCall(Some([pH |-> Num(line.pH),
                                   temperature |-> Num(line.temperature),
                                   timestamp |-> Str("local")]),
                             <<"ph_read">>)
             ELSE ReaderCall(rest.value, <<"ph_read">> \o rest.ops)

\* DataCollector.read_ph_data
DC_read_ph_data_call(use, port, lines) ==
    IF ~use \/ port = "None" THEN ReaderCall(None, <<>>)
    ELSE DC_read_ph_run(port, lines, 1)

\* DataCollector.read_keithley_data: no test of the flag or of the port; on
\* a None port every operation is an AttributeError and no port is touched,
\* on a failing round trip "*CLS" is written after the failure.
DC_read_keithley_data_call(port, reply, timer) ==
    ReaderCall(DC_read_keithley_data(port, reply, timer),
               IF port = "None" THEN <<>>
               ELSE IF reply.ok /\ port = "open" THEN KeithleyOps(reply)
               ELSE <<"k_write", "k_write">>)

----------------------------------------------------------------------------
(* Sample merge *)

\* strftime("%Y-%m-%d %H:%M:%S") of the wall clock
TimeText(t) == "T" \o ToString(t)

\* dict.update
Update(d, u) == u @@ d

\* data_point with the two else branches coupled: a missing source-measure
\* reading also blanks the pH fields
data_point_coupled(ts, ph, k, cycle_number) ==
    LET d0 == "absolute_time" :> Str(TimeText(ts))
        d1 == IF ph # None /\ k # None
              THEN Update(d0, "pH" :> Value(ph).pH
                              @@ "temperature" :> Value(ph).temperature)
              ELSE Update(d0, "pH" :> None @@ "temperature" :> None)
        d2 == IF k # None
              THEN Update(d1, "voltage" :> Value(k).voltage
                              @@ "current" :> Value(k).current
                              @@ "elapsed_time" :> Value(k).elapsed_time)
              ELSE Update(d1, "voltage" :> None @@ "current" :> None
                              @@ "elapsed_time" :> None)
    IN  IF cycle_number # None
        THEN Update(d2, "cycle_number" :> cycle_number)
        ELSE d2

\* UnifiedDataCollector.collect_data_point, lines 170-196
data_point(ts, ph, k, cycle_number) ==
    LET d0 == "absolute_time" :> Str(TimeText(ts))
        d1 == IF ph # None
              THEN Update(d0, "pH" :> Value(ph).pH
                              @@ "temperature" :> Value(ph).temperature)
              ELSE Update(d0, "pH" :> None @@ "temperature" :> None)
        d2 == IF k # None
              THEN Update(d1, "voltage" :> Value(k).voltage
                              @@ "current" :> Value(k).current
                              @@ "elapsed_time" :> Value(k).elapsed_time)
              ELSE Update(d1, "voltage" :> None @@ "current" :> None
                              @@ "elapsed_time" :> None)
    IN  IF cycle_number # None
        THEN Update(d2, "cycle_number" :> cycle_number)
        ELSE d2

\* append into a buffer that keeps only the two newest samples
buffer_append_ring(buf, d) ==
    IF Len(buf) >= 2 THEN Append(Tail(buf), d) ELSE Append(buf, d)

\* self.data_buffer.append(data_point)
buffer_append(buf, d) == Append(buf, d)

\* DataCollector.collect_data_point, lines 246-275; now is time.time()
DC_data_point(ts, now, use_ph, use_k, ph, k, cycle_number) ==
    LET d0 == "absolute_time" :> Str(TimeText(ts))
              @@ "elapsed_time" :> Num(now)
        d1 == IF ~use_ph THEN d0
              ELSE IF ph # None
              THEN Update(d0, "pH" :> Value(ph).pH
                              @@ "temperature" :> Value(ph).temperature)
              ELSE Update(d0, "pH" :> None @@ "temperature" :> None)
        d2 == IF ~use_k THEN d1
              ELSE IF k # None
              THEN Update(d1, "voltage" :> Value(k).voltage
                              @@ "current" :> Value(k).current
                              @@ "elapsed_time" :> Value(k).elapsed_time)
              ELSE Update(d1, "voltage" :> None @@ "current" :> None)
    IN  IF cycle_number # None
        THEN Update(d2, "cycle_number" :> cycle_number)
        ELSE d2

----------------------------------------------------------------------------
(* Exporter *)

headers == <<"absolute_time", "elapsed_time", "current", "voltage", "pH",
             "temperature", "cycle_number">>
HeaderSet == {headers[i] : i \in 1..Len(headers)}

\* data_point.get(h, "")
DictGet(d, h) == IF h \in DOMAIN d THEN d[h] ELSE Str("")

\* Cell through str() alone: None becomes the text "None"
Cell_str(v) ==
    IF v = None THEN "None"
    ELSE IF v[1] = "str" THEN v[2]
    ELSE IF v[1] = "int" THEN ToString(v[2])
    ELSE ToString(v[2]) \o ".0"

\* The csv module writes None as the empty string and every other value
\* through str().
Cell(v) ==
    IF v = None THEN ""
    ELSE IF v[1] = "str" THEN v[2]
    ELSE IF v[1] = "int" THEN ToString(v[2])
    ELSE ToString(v[2]) \o ".0"

\* writer.writerow({h: data_point.get(h, "") for h in headers})
CsvRow(d) == [h \in HeaderSet |-> Cell(DictGet(d, h))]

\* The file export_data writes: the header row, then one row per sample.
CsvFile(buf) == [header |-> headers,
                 rows |-> [i \in 1..Len(buf) |-> CsvRow(buf[i])]]

\* export_data without the data_saved guard
export_data_unguarded(buf, saved, fs) ==
    [files |-> Append(fs, CsvFile(buf)), data_saved |-> TRUE]

\* export_data setting data_saved before, and without, writing the files
export_data_flag_only(buf, saved, fs) ==
    [files |-> fs, data_saved |-> TRUE]

\* UnifiedDataCollector.export_data: only data_saved guards the write.
export_data(buf, saved, fs) ==
    IF saved THEN [files |-> fs, data_saved |-> saved]
    ELSE [files |-> Append(fs, CsvFile(buf)), data_saved |-> TRUE]

\* DataCollector.export_data: an empty buffer is not exported.
DC_export_data(buf, saved, fs) ==
    IF buf = <<>> THEN [files |-> fs, data_saved |-> saved]
    ELSE IF saved THEN [files |-> fs, data_saved |-> saved]
    ELSE [files |-> Append(fs, CsvFile(buf)), data_saved |-> TRUE]

----------------------------------------------------------------------------
(* Waveform plan and phase sequencer of main() *)

\* current_value of the first pulse (lines 41-46)
FirstLevelKey(af) == IF af THEN "anodic" ELSE "cathodic"

\* current_value of the second pulse (lines 65-70)
SecondLevelKey(af) == IF af THEN "cathodic" ELSE "anodic"

\* The amplitude written at the entry of each phase (lines 49, 73, 89)
LevelKey(af, ph) ==
    CASE ph = 1 -> FirstLevelKey(af)
      [] ph = 2 -> SecondLevelKey(af)
      [] ph = 3 -> "zero"

\* The duration each polling sub-loop compares against (lines 54, 77, 93)
WidthKey(ph) ==
    CASE ph = 1 -> "anodic"
      [] ph = 2 -> "cathodic"
      [] ph = 3 -> "interPulseInterval"

\* waveformParameters["pulseWidth"] / ["interPulseInterval"]
Width(key) ==
    CASE key = "anodic" -> AnodicTicks
      [] key = "cathodic" -> CathodicTicks
      [] key = "interPulseInterval" -> RestTicks

\* PollCondition with the comparison off by one (<= for <)
PollCondition_inclusive(now, start, ph, running) ==
    (now - start) <= Width(WidthKey(ph)) /\ running

\* The condition of the three while loops
PollCondition(now, start, ph, running) ==
    (now - start) < Width(WidthKey(ph)) /\ running

----------------------------------------------------------------------------
(* Instrument initialisation *)

\* How the initialisation of one instrument goes: it opens and configures,
\* fails before a port object exists (no resource, open_resource raises),
\* or fails after the port object was assigned.
InitOutcomes == {"ok", "open_fail", "config_fail"}

\* UnifiedDataCollector.initialize_instruments: each instrument has its own
\* try/except Exception that clears the use flag.
initialize_instruments(use_ph, use_k, po, ko) ==
    [use_ph_meter |-> use_ph /\ po = "ok",
     ph_meter |-> IF use_ph /\ po # "open_fail" THEN "open" ELSE "None",
     use_keithley |-> use_k /\ ko = "ok",
     keithley |-> IF use_k /\ ko # "open_fail" THEN "open" ELSE "None",
     raised |-> FALSE]

\* DataCollector.initialize_instruments: _initialize_ph_meter catches its
\* exceptions, _initialize_keithley has no handler, so what it raises (the
\* AttributeError on a None port included) leaves initialize_instruments
\* with use_keithley still set.
DC_initialize_instruments(use_ph, use_k, po, ko) ==
    [use_ph_meter |-> use_ph /\ po = "ok",
     ph_meter |-> IF use_ph /\ po # "open_fail" THEN "open" ELSE "None",
     use_keithley |-> use_k,
     keithley |-> IF use_k /\ ko # "open_fail" THEN "open" ELSE "None",
     raised |-> use_k /\ ko # "ok"]

\* The failed initialisations counted into the io record c
InitFailures(c, use_ph, use_k, po, ko) ==
    [c EXCEPT !.phInitFail = @ + (IF use_ph /\ po # "ok" THEN 1 ELSE 0),
              !.kInitFail = @ + (IF use_k /\ ko # "ok" THEN 1 ELSE 0)]

----------------------------------------------------------------------------
(* Teardown *)

CloseSteps == {"ph_close", "k_off", "k_clear", "k_close"}

\* close without the output-off write
close_without_off(ph, k, c, failing) ==
    LET phCalled == ph # "None"
        closeOk == k = "open" /\ "k_clear" \notin failing
                              /\ "k_close" \notin failing
    IN  [ph_meter |-> IF phCalled /\ "ph_close" \notin failing
                      THEN "closed" ELSE ph,
         keithley |-> IF closeOk THEN "closed" ELSE k,
         io |-> [c EXCEPT !.closeCalls = @ + 1,
                          !.phclose = @ + (IF phCalled THEN 1 ELSE 0),
                          !.kclose = @ + (IF closeOk THEN 1 ELSE 0)]]

\* What one call of close() did: the ports before and after, the steps
\* that raised, whether the output-off write was issued, and whether an
\* exception left close().
CloseEntry(ph, k, failing, ph2, k2, offTried, raised) ==
    [ph |-> ph, k |-> k, failing |-> failing, phAfter |-> ph2,
     kAfter |-> k2, offTried |-> offTried, raised |-> raised]

\* close with both ports handled in one try block and no handler: a failing
\* pH close skips the source-measure port and leaves close() as an exception
close_single_try(ph, k, c, failing) ==
    LET phCalled == ph # "None"
        phFail == phCalled /\ "ph_close" \in failing
        ph2 == IF phCalled /\ ~phFail THEN "closed" ELSE ph
        c1 == [c EXCEPT !.closeCalls = @ + 1,
                        !.phclose = @ + (IF phCalled THEN 1 ELSE 0)]
        offTried == ~phFail /\ k = "open"
        offOk == offTried /\ "k_off" \notin failing
        clearOk == offOk /\ "k_clear" \notin failing
        closeOk == clearOk /\ "k_close" \notin failing
        k2 == IF closeOk THEN "closed" ELSE k
        c2 == [c1 EXCEPT !.off = @ + (IF offTried THEN 1 ELSE 0),
                         !.outputOn = IF offTried THEN 0 ELSE @,
                         !.closedOps = @ + (IF ~phFail /\ k = "closed"
                                            THEN 1 ELSE 0),
                         !.kclose = @ + (IF clearOk THEN 1 ELSE 0),
                         !.closes = Append(@, CloseEntry(ph, k, failing, ph2,
                                                         k2, offTried,
                                                         phFail))]
    IN  [ph_meter |-> ph2, keithley |-> k2, io |-> c2]

\* UnifiedDataCollector.close / DataCollector.close on ports ph and k, with
\* the port operations in failing raising; c is the io record.  The pH port
\* has its own try block; the output-off write, the buffer clear and the
\* close of the source-measure port share one, so the first of them that
\* raises skips the rest.  Both handlers are bare "except: pass".
close(ph, k, c, failing) ==
    LET phCalled == ph # "None"
        ph2 == IF phCalled /\ "ph_close" \notin failing THEN "closed" ELSE ph
        c1 == [c EXCEPT !.closeCalls = @ + 1,
                        !.phclose = @ + (IF phCalled THEN 1 ELSE 0)]
        offTried == k = "open"
        offOk == offTried /\ "k_off" \notin failing
        clearOk == offOk /\ "k_clear" \notin failing
        closeOk == clearOk /\ "k_close" \notin failing
        k2 == IF closeOk THEN "closed" ELSE k
        c2 == [c1 EXCEPT !.off = @ + (IF offTried THEN 1 ELSE 0),
                         !.outputOn = IF offTried THEN 0 ELSE @,
                         !.closedOps = @ + (IF k = "closed" THEN 1 ELSE 0),
                         !.kclose = @ + (IF clearOk THEN 1 ELSE 0),
                         !.closes = Append(@, CloseEntry(ph, k, failing, ph2,
                                                         k2, offTried,
                                                         FALSE))]
    IN  [ph_meter |-> ph2, keithley |-> k2, io |-> c2]

\* OnCloseExports with the data_saved test inverted
OnCloseExports_inverted(buf, saved) == buf # <<>> /\ saved

\* The guard of the export in on_close (line 316 / data_collector.py:401)
OnCloseExports(buf, saved) == buf # <<>> /\ ~saved

\* The output-off write at the head of UnifiedDataCollector.on_close
\* (lines 302-307)
OnCloseOff(k, c) ==
    [c EXCEPT !.off = @ + (IF k = "open" THEN 1 ELSE 0),
              !.outputOn = IF k = "open" THEN 0 ELSE @,
              !.closedOps = @ + (IF k = "closed" THEN 1 ELSE 0)]

----------------------------------------------------------------------------
(* Environment of one session *)

\* What the probe and the source-measure unit show at time t.
ProbeLine(t) == PhLine("full", IF t % 2 = 0 THEN 7 ELSE 8, 25)
UnitReply(t) == KeithleyReply(TRUE, IF t % 2 = 0 THEN 1 ELSE 2, 4)

\* The steps close() gets to execute on ports ph and k when the steps in
\* failing raise: a step skipped by an earlier failure is not executed.
AttemptedSteps(ph, k, failing) ==
    (IF ph # "None" THEN {"ph_close"} ELSE {})
    \cup (IF k # "open" THEN {}
          ELSE IF "k_off" \in failing THEN {"k_off"}
          ELSE IF "k_clear" \in failing THEN {"k_off", "k_clear"}
          ELSE {"k_off", "k_clear", "k_close"})

\* Sets of failing teardown steps within the remaining fault budget; only a
\* step that is executed can fail.
FailingSets(n, ph, k) ==
    {f \in SUBSET CloseSteps : /\ Cardinality(f) <= MaxFaults - n
                               /\ f \subseteq AttemptedSteps(ph, k, f)}

NoIO == [off |-> 0, on |-> 0, level |-> 0, kclose |-> 0, phclose |-> 0,
         closedOps |-> 0, closeCalls |-> 0, started |-> 0, collects |-> 0,
         demoted |-> 0, phInitFail |-> 0, kInitFail |-> 0, closes |-> <<>>,
         ops |-> <<>>, outputOn |-> 0]

\* No collector method has been called yet.
NoOp == [name |-> "none", prev |-> "none", wrote |-> FALSE]

\* Positions of main() inside its try block (lines 20-106)
TryPcs == {"configure", "cycle_head", "set_level", "poll", "read_ph",
           "read_keithley", "append", "update_plots", "sleep", "abort_check",
           "export"}

\* Positions inside a polling sub-loop
PollPcs == {"poll", "read_ph", "read_keithley", "append", "update_plots",
            "sleep"}

----------------------------------------------------------------------------
(* One session of main() *)

Init ==
    /\ impl = "unified"
    /\ numPulses \in 0..MaxPulses
    /\ anodicFirst \in BOOLEAN
    /\ use_ph_meter = TRUE
    /\ use_keithley = TRUE
    /\ ph_meter = "None"
    /\ keithley = "None"
    /\ data_buffer = <<>>
    /\ experiment_running = TRUE
    /\ data_saved = FALSE
    /\ pc = "initialize"
    /\ cycle = 0
    /\ phase = 0
    /\ start_time = 0
    /\ ph_data = None
    /\ keithley_data = None
    /\ clock = 0
    /\ files = <<>>
    /\ phaseLog = <<>>
    /\ readLog = <<>>
    /\ io = NoIO
    /\ cause = "none"
    /\ intAt = None
    /\ stopSnap = None
    /\ faults = 0
    /\ lastOp = NoOp

\* main() line 18: collector.initialize_instruments()
InitializeInstruments ==
    /\ pc = "initialize"
    /\ \E po \in InitOutcomes, ko \in InitOutcomes :
          LET r == initialize_instruments(use_ph_meter, use_keithley, po, ko)
          IN  /\ ph_meter' = r.ph_meter
              /\ use_ph_meter' = r.use_ph_meter
              /\ keithley' = r.keithley
              /\ use_keithley' = r.use_keithley
              /\ io' = InitFailures(io, use_ph_meter, use_keithley, po, ko)
    /\ pc' = "configure"
    /\ UNCHANGED <<config, locals, data_buffer, experiment_running,
                   data_saved, clock, files, phaseLog, readLog, cause,
                   intAt, stopSnap, faults, lastOp>>

\* main() lines 22-31: six writes when a port object exists
ConfigWrites == 6

ConfigureOk ==
    /\ pc = "configure"
    /\ io' = [io EXCEPT !.demoted = @ + (IF keithley # "None" /\ ~use_keithley
                                         THEN ConfigWrites ELSE 0)]
    /\ pc' = "cycle_head"
    /\ UNCHANGED <<config, locals, use_ph_meter, use_keithley, ph_meter,
                   keithley, data_buffer, experiment_running, data_saved,
                   clock, files, phaseLog, readLog, cause, intAt, stopSnap,
                   faults, lastOp>>

\* A write raises: the exception leaves the try block through finally.
ConfigureRaises ==
    /\ pc = "configure"
    /\ keithley = "open"
    /\ faults < MaxFaults
    /\ faults' = faults + 1
    /\ cause' = "error"
    /\ intAt' = Some([pc |-> pc, phase |-> phase, cycle |-> cycle])
    /\ pc' = "finally"
    /\ UNCHANGED <<config, locals, use_ph_meter, use_keithley, ph_meter,
                   keithley, data_buffer, experiment_running, data_saved,
                   clock, files, phaseLog, readLog, io, stopSnap,
                   lastOp>>

\* for cycle in range(numPulses): cycle counts the iterations started, so
\* the cycle_number passed to collect_data_point (cycle + 1 in the source)
\* is the value of cycle here.
CycleHead ==
    /\ pc = "cycle_head"
    /\ IF cycle < numPulses
       THEN /\ cycle' = cycle + 1
            /\ phase' = 1
            /\ pc' = "set_level"
       ELSE /\ pc' = "export"
            /\ UNCHANGED <<cycle, phase>>
    /\ UNCHANGED <<config, start_time, ph_data, keithley_data, use_ph_meter,
                   use_keithley, ph_meter, keithley, data_buffer,
                   experiment_running, data_saved, clock, files, phaseLog,
                   readLog, io, cause, intAt, stopSnap, faults, lastOp>>

\* Phase entry: write the level (and output ON in the first phase) when a
\* port object exists, then take start_time.
SetLevel ==
    /\ pc = "set_level"
    /\ LET written == keithley # "None" IN
       /\ phaseLog' = Append(phaseLog,
                             [amp |-> LevelKey(anodicFirst, phase),
                              width |-> WidthKey(phase),
                              events |-> IF written THEN <<"write">>
                                                    ELSE <<>>])
       /\ io' = [io EXCEPT
                   !.level = @ + (IF written THEN 1 ELSE 0),
                   !.on = @ + (IF written /\ phase = 1 THEN 1 ELSE 0),
                   !.outputOn = IF written /\ phase = 1 THEN 1 ELSE @,
                   !.demoted = @ + (IF written /\ ~use_keithley
                                    THEN (IF phase = 1 THEN 2 ELSE 1) ELSE 0)]
    /\ start_time' = clock
    /\ pc' = "poll"
    /\ UNCHANGED <<config, cycle, phase, ph_data, keithley_data, use_ph_meter,
                   use_keithley, ph_meter, keithley, data_buffer,
                   experiment_running, data_saved, clock, files, readLog,
                   cause, intAt, stopSnap, faults, lastOp>>

SetLevelRaises ==
    /\ pc = "set_level"
    /\ keithley = "open"
    /\ faults < MaxFaults
    /\ faults' = faults + 1
    /\ cause' = "error"
    /\ intAt' = Some([pc |-> pc, phase |-> phase, cycle |-> cycle])
    /\ pc' = "finally"
    /\ UNCHANGED <<config, locals, use_ph_meter, use_keithley, ph_meter,
                   keithley, data_buffer, experiment_running, data_saved,
                   clock, files, phaseLog, readLog, io, stopSnap,
                   lastOp>>

\* The while condition of a polling sub-loop; a true condition enters
\* collect_data_point.
PollCheck ==
    /\ pc = "poll"
    /\ IF PollCondition(clock, start_time, phase, experiment_running)
       THEN /\ pc' = "read_ph"
            /\ io' = [io EXCEPT !.started = @ + 1]
            /\ phaseLog' = [phaseLog EXCEPT
                              ![Len(phaseLog)].events = Append(@, "poll")]
       ELSE /\ pc' = "abort_check"
            /\ UNCHANGED <<io, phaseLog>>
    /\ UNCHANGED <<config, locals, use_ph_meter, use_keithley, ph_meter,
                   keithley, data_buffer, experiment_running, data_saved,
                   clock, files, readLog, cause, intAt, stopSnap, faults,
                   lastOp>>

\* collect_data_point line 174; an exception that left the reader would
\* leave collect_data_point and the try block of main() as well
ReadPh ==
    /\ pc = "read_ph"
    /\ \E line \in {ProbeLine(clock), PhLine("timeout", 7, 25)} :
          /\ \/ line.kind = "full" /\ UNCHANGED faults
             \/ /\ line.kind # "full"
                /\ use_ph_meter /\ ph_meter = "open"
                /\ faults < MaxFaults
                /\ faults' = faults + 1
          /\ LET r == read_ph_data(use_ph_meter, ph_meter, line) IN
                IF r = Raised
                THEN /\ cause' = "error"
                     /\ intAt' = Some([pc |-> pc, phase |-> phase,
                                       cycle |-> cycle])
                     /\ pc' = "finally"
                     /\ UNCHANGED ph_data
                ELSE /\ ph_data' = r
                     /\ pc' = "read_keithley"
                     /\ UNCHANGED <<cause, intAt>>
    /\ UNCHANGED <<config, cycle, phase, start_time, keithley_data,
                   use_ph_meter, use_keithley, ph_meter, keithley,
                   data_buffer, experiment_running, data_saved, clock, files,
                   phaseLog, readLog, io, stopSnap, lastOp>>

\* collect_data_point line 183; the timer was cleared at configuration
ReadKeithley ==
    /\ pc = "read_keithley"
    /\ \E reply \in {UnitReply(clock), KeithleyReply(FALSE, 1, 4)} :
          /\ \/ reply.ok /\ UNCHANGED faults
             \/ /\ ~reply.ok
                /\ use_keithley /\ keithley = "open"
                /\ faults < MaxFaults
                /\ faults' = faults + 1
          /\ LET r == read_keithley_data(use_keithley, keithley, reply,
                                         clock) IN
                IF r = Raised
                THEN /\ cause' = "error"
                     /\ intAt' = Some([pc |-> pc, phase |-> phase,
                                       cycle |-> cycle])
                     /\ pc' = "finally"
                     /\ UNCHANGED keithley_data
                ELSE /\ keithley_data' = r
                     /\ pc' = "append"
                     /\ UNCHANGED <<cause, intAt>>
    /\ UNCHANGED <<config, cycle, phase, start_time, ph_data, use_ph_meter,
                   use_keithley, ph_meter, keithley, data_buffer,
                   experiment_running, data_saved, clock, files, phaseLog,
                   readLog, io, stopSnap, lastOp>>

\* collect_data_point lines 195-198
AppendSample ==
    /\ pc = "append"
    /\ data_buffer' = buffer_append(data_buffer,
                                    data_point(clock, ph_data, keithley_data,
                                               IntVal(cycle)))
    /\ readLog' = Append(readLog, [ph |-> ph_data, k |-> keithley_data])
    /\ pc' = "update_plots"
    /\ UNCHANGED <<config, locals, use_ph_meter, use_keithley, ph_meter,
                   keithley, experiment_running, data_saved, clock, files,
                   phaseLog, io, cause, intAt, stopSnap, faults, lastOp>>

\* update_plots with no close event pending: collect_data_point returns.
UpdatePlots ==
    /\ pc = "update_plots"
    /\ io' = [io EXCEPT !.collects = @ + 1]
    /\ pc' = "sleep"
    /\ UNCHANGED <<config, locals, use_ph_meter, use_keithley, ph_meter,
                   keithley, data_buffer, experiment_running, data_saved,
                   clock, files, phaseLog, readLog, cause, intAt, stopSnap,
                   faults, lastOp>>

\* time.sleep(0.1): one poll period
Sleep ==
    /\ pc = "sleep"
    /\ clock' = clock + 1
    /\ pc' = "poll"
    /\ UNCHANGED <<config, locals, use_ph_meter, use_keithley, ph_meter,
                   keithley, data_buffer, experiment_running, data_saved,
                   files, phaseLog, readLog, io, cause, intAt, stopSnap,
                   faults, lastOp>>

\* "if not collector.experiment_running: break" after each sub-loop
AbortCheck ==
    /\ pc = "abort_check"
    /\ IF ~experiment_running
       THEN pc' = "export" /\ UNCHANGED phase
       ELSE IF phase < 3
       THEN pc' = "set_level" /\ phase' = phase + 1
       ELSE pc' = "cycle_head" /\ UNCHANGED phase
    /\ UNCHANGED <<config, cycle, start_time, ph_data, keithley_data,
                   use_ph_meter, use_keithley, ph_meter, keithley,
                   data_buffer, experiment_running, data_saved, clock, files,
                   phaseLog, readLog, io, cause, intAt, stopSnap, faults,
                   lastOp>>

\* main() line 105
Export ==
    /\ pc = "export"
    /\ LET r == export_data(data_buffer, data_saved, files) IN
       /\ files' = r.files
       /\ data_saved' = r.data_saved
    /\ cause' = "normal"
    /\ pc' = "finally"
    /\ UNCHANGED <<config, locals, use_ph_meter, use_keithley, ph_meter,
                   keithley, data_buffer, experiment_running, clock,
                   phaseLog, readLog, io, intAt, stopSnap, faults, lastOp>>

\* Ctrl+C anywhere inside the try block: caught at line 108, which only
\* prints; control continues in finally.
KeyboardInterrupt ==
    /\ pc \in TryPcs
    /\ cause' = "interrupt"
    /\ intAt' = Some([pc |-> pc, phase |-> phase, cycle |-> cycle])
    /\ pc' = "finally"
    /\ UNCHANGED <<config, locals, use_ph_meter, use_keithley, ph_meter,
                   keithley, data_buffer, experiment_running, data_saved,
                   clock, files, phaseLog, readLog, io, stopSnap, faults,
                   lastOp>>

\* UnifiedDataCollector.on_close, delivered at the current position of
\* main().  It runs to its sys.exit(0); the SystemExit it raises passes
\* "except Exception" and "except KeyboardInterrupt" and unwinds main()
\* through its finally block.
on_close ==
    /\ \E failing \in FailingSets(faults, ph_meter, keithley) :
          LET c == close(ph_meter, keithley, OnCloseOff(keithley, io),
                         failing)
              r == IF OnCloseExports(data_buffer, data_saved)
                   THEN export_data(data_buffer, data_saved, files)
                   ELSE [files |-> files, data_saved |-> data_saved]
          IN  /\ experiment_running' = FALSE
              /\ ph_meter' = c.ph_meter
              /\ keithley' = c.keithley
              /\ io' = c.io
              /\ files' = r.files
              /\ data_saved' = r.data_saved
              /\ faults' = faults + Cardinality(failing)
              /\ stopSnap' = Some([buf |-> data_buffer, level |-> io.level,
                                   started |-> io.started, at |-> pc])
    /\ cause' = "close"
    /\ pc' = "finally"
    /\ UNCHANGED <<config, locals, use_ph_meter, use_keithley, data_buffer,
                   clock, phaseLog, readLog, intAt, lastOp>>

\* The plot window is closed: the toolkit delivers close_event while
\* update_plots runs flush_events.
OnClose ==
    /\ pc = "update_plots"
    /\ on_close

\* main() lines 111-114: collector.close(), then the session ends.
Finally ==
    /\ pc = "finally"
    /\ \E failing \in FailingSets(faults, ph_meter, keithley) :
          LET c == close(ph_meter, keithley, io, failing) IN
              /\ ph_meter' = c.ph_meter
              /\ keithley' = c.keithley
              /\ io' = c.io
              /\ faults' = faults + Cardinality(failing)
    /\ pc' = "done"
    /\ UNCHANGED <<config, locals, use_ph_meter, use_keithley, data_buffer,
                   experiment_running, data_saved, clock, files, phaseLog,
                   readLog, cause, intAt, stopSnap, lastOp>>

Next ==
    \/ InitializeInstruments
    \/ ConfigureOk
    \/ ConfigureRaises
    \/ CycleHead
    \/ SetLevel
    \/ SetLevelRaises
    \/ PollCheck
    \/ ReadPh
    \/ ReadKeithley
    \/ AppendSample
    \/ UpdatePlots
    \/ Sleep
    \/ AbortCheck
    \/ Export
    \/ KeyboardInterrupt
    \/ OnClose
    \/ Finally

Spec == Init /\ [][Next]_vars

----------------------------------------------------------------------------
(* Termination and export coordination: C1 - C4 *)

Terminated == pc = "done"

\* C1: on each termination path (normal completion, KeyboardInterrupt, window
\* close) a session that ends with a non-empty data_buffer has written exactly
\* one CSV/PNG pair.
C1_ExportExactlyOnce ==
    (Terminated /\ cause \in {"normal", "interrupt", "close"}
                /\ data_buffer # <<>>)
        => Len(files) = 1

\* C2: over a whole session the output-off command reaches the source-measure
\* port at most once and close() is called on each port at most once.
C2_TeardownAtMostOnce ==
    /\ io.off <= 1
    /\ io.kclose <= 1
    /\ io.phclose <= 1

InterruptedInRest ==
    /\ cause = "interrupt"
    /\ intAt # None
    /\ Value(intAt).phase = 3
    /\ Value(intAt).pc \in PollPcs

\* C3: a session ended by a KeyboardInterrupt raised while polling in the
\* inter-pulse interval (window not closed) has run close() exactly once and
\* has issued the output-off command exactly once to the source-measure port
\* (there is no command to issue when no port object was ever created), and
\* nothing was attempted on a closed port.
C3_InterruptTeardownOnce ==
    (Terminated /\ InterruptedInRest)
        => /\ io.closeCalls = 1
           /\ io.off = (IF keithley # "None" THEN 1 ELSE 0)
           /\ io.closedOps = 0
           /\ experiment_running

C3_Witness ==
    /\ Terminated /\ InterruptedInRest
    /\ keithley = "closed"
    /\ io.off = 1
    /\ data_buffer # <<>>

\* C4: once experiment_running is false (the window was closed during a poll)
\* main() writes no further source level and starts no further
\* collect_data_point, data_buffer stays as it stood, and exactly one CSV/PNG
\* pair exists, holding that buffer.
C4_StopHaltsSequencer ==
    /\ (stopSnap # None) <=> ~experiment_running
    /\ stopSnap # None =>
          LET s == Value(stopSnap) IN
              /\ io.level = s.level
              /\ io.started = s.started
              /\ data_buffer = s.buf
              /\ Len(files) = 1
              /\ files[1] = CsvFile(s.buf)

C4_Witness ==
    /\ Terminated
    /\ stopSnap # None
    /\ phase = 2
    /\ cycle < numPulses
    /\ Len(Value(stopSnap).buf) = AnodicTicks + 1
    /\ Len(files) = 1

----------------------------------------------------------------------------
(* Phase sequencer: C5, C6 *)

Polls(n) == [j \in 1..n |-> "poll"]

PhaseOf(i) == ((i - 1) % 3) + 1

\* C5: with anodicFirst true, a run that completes normally has executed
\* exactly numPulses repetitions of (anodic, cathodic, rest); each phase wrote
\* its own level once, before its first poll (when a source-measure port
\* exists), and polled for its own duration.
C5_PhaseOrder ==
    (Terminated /\ cause = "normal" /\ anodicFirst)
        => /\ Len(phaseLog) = 3 * numPulses
           /\ \A i \in 1..Len(phaseLog) :
                 LET e == phaseLog[i]
                     k == PhaseOf(i)
                     n == CASE k = 1 -> AnodicTicks
                            [] k = 2 -> CathodicTicks
                            [] k = 3 -> RestTicks
                 IN  /\ e.amp = (CASE k = 1 -> "anodic"
                                   [] k = 2 -> "cathodic"
                                   [] k = 3 -> "zero")
                     /\ e.width = (CASE k = 1 -> "anodic"
                                     [] k = 2 -> "cathodic"
                                     [] k = 3 -> "interPulseInterval")
                     /\ e.events = (IF keithley # "None" THEN <<"write">>
                                                         ELSE <<>>)
                                   \o Polls(n)
           /\ io.level = (IF keithley # "None" THEN 3 * numPulses ELSE 0)

C5_Witness ==
    /\ Terminated /\ cause = "normal" /\ anodicFirst
    /\ numPulses = 2
    /\ Len(phaseLog) = 6
    /\ io.level = 6

\* C6: with anodicFirst false the sequencer executes no phase, or every phase
\* that holds a polarity's amplitude polls for that polarity's pulse width.
C6_CathodicFirstSymmetric ==
    ~anodicFirst =>
        \A i \in 1..Len(phaseLog) :
            /\ phaseLog[i].amp = "cathodic" => phaseLog[i].width = "cathodic"
            /\ phaseLog[i].amp = "anodic" => phaseLog[i].width = "anodic"

----------------------------------------------------------------------------
(* The collector classes called directly: any order of collect_data_point,   *)
(* export_data and on_close, on either class, with arbitrary replies.        *)

\* The state initialize_instruments leaves an instrument in: enabled with an
\* open port, or demoted with no port or with the port it opened.
InstrumentStates == {<<TRUE, "open">>, <<FALSE, "None">>, <<FALSE, "open">>}

InitCollector ==
    /\ impl \in {"unified", "legacy"}
    /\ numPulses = 0
    /\ anodicFirst = TRUE
    /\ \E p \in InstrumentStates : use_ph_meter = p[1] /\ ph_meter = p[2]
    /\ \E k \in InstrumentStates : use_keithley = k[1] /\ keithley = k[2]
    /\ data_buffer = <<>>
    /\ experiment_running = TRUE
    /\ data_saved = FALSE
    /\ pc = "api"
    /\ cycle = 0
    /\ phase = 0
    /\ start_time = 0
    /\ ph_data = None
    /\ keithley_data = None
    /\ clock = 0
    /\ files = <<>>
    /\ phaseLog = <<>>
    /\ readLog = <<>>
    /\ io = NoIO
    /\ cause = "none"
    /\ intAt = None
    /\ stopSnap = None
    /\ faults = 0
    /\ lastOp = NoOp

Called(name, wrote) ==
    [name |-> name, prev |-> lastOp.name, wrote |-> wrote]

CanCall == pc = "api"

CycleNumbers == {None, IntVal(1)}

\* Any kind of line, carrying what the probe shows at time t
LinesAt(t) == {PhLine(kind, ProbeLine(t).pH, ProbeLine(t).temperature) :
                  kind \in PhLineKinds}

\* A failed or a successful poll of what the unit shows at time t
RepliesAt(t) == {KeithleyReply(ok, UnitReply(t).voltage, UnitReply(t).current) :
                    ok \in BOOLEAN}

\* What five successive reads of the pH port deliver: bad lines, then good
\* ones from read number k on (k = MaxAttempts + 1: never a good line).
LineSeqsAt(t) ==
    {[i \in 1..MaxAttempts |-> IF i < k THEN bad ELSE good] :
        k \in {1, MaxAttempts, MaxAttempts + 1},
        bad \in {l \in LinesAt(t) : l.kind \in {"header", "garbage", "timeout"}},
        good \in {l \in LinesAt(t) : l.kind \in {"full", "partial"}}}

\* UnifiedDataCollector.collect_data_point
CollectUnified ==
    /\ CanCall /\ impl = "unified"
    /\ Len(data_buffer) < MaxSamples
    /\ \E line \in LinesAt(clock), reply \in RepliesAt(clock),
          cn \in CycleNumbers :
          LET ph == read_ph_data(use_ph_meter, ph_meter, line)
              k == read_keithley_data(use_keithley, keithley, reply, clock)
          IN  /\ data_buffer' =
                    buffer_append(data_buffer, data_point(clock, ph, k, cn))
              /\ readLog' = Append(readLog, [ph |-> ph, k |-> k])
              /\ ph_data' = ph
              /\ keithley_data' = k
    /\ io' = [io EXCEPT !.started = @ + 1, !.collects = @ + 1]
    /\ clock' = clock + 1
    /\ lastOp' = Called("collect_data_point", FALSE)
    /\ UNCHANGED <<config, cycle, phase, start_time, use_ph_meter,
                   use_keithley, ph_meter, keithley, experiment_running,
                   data_saved, pc, files, phaseLog, cause, intAt, stopSnap,
                   faults>>

\* DataCollector.collect_data_point: a reader is called only for an enabled
\* instrument; elapsed_time starts as time.time().
CollectLegacy ==
    /\ CanCall /\ impl = "legacy"
    /\ Len(data_buffer) < MaxSamples
    /\ \E lines \in LineSeqsAt(clock), reply \in RepliesAt(clock),
          cn \in CycleNumbers :
          LET ph == IF use_ph_meter
                    THEN DC_read_ph_data(use_ph_meter, ph_meter, lines)
                    ELSE None
              k == IF use_keithley
                   THEN DC_read_keithley_data(keithley, reply, clock)
                   ELSE None
          IN  /\ data_buffer' =
                    buffer_append(data_buffer,
                                  DC_data_point(clock, EpochTicks + clock,
                                                use_ph_meter, use_keithley,
                                                ph, k, cn))
              /\ readLog' = Append(readLog, [ph |-> ph, k |-> k])
              /\ ph_data' = ph
              /\ keithley_data' = k
    /\ io' = [io EXCEPT !.started = @ + 1, !.collects = @ + 1]
    /\ clock' = clock + 1
    /\ lastOp' = Called("collect_data_point", FALSE)
    /\ UNCHANGED <<config, cycle, phase, start_time, use_ph_meter,
                   use_keithley, ph_meter, keithley, experiment_running,
                   data_saved, pc, files, phaseLog, cause, intAt, stopSnap,
                   faults>>

\* export_data of the class under test
ExportFor(i, buf, saved, fs) ==
    IF i = "unified" THEN export_data(buf, saved, fs)
                     ELSE DC_export_data(buf, saved, fs)

ExportCall ==
    /\ CanCall
    /\ LET r == ExportFor(impl, data_buffer, data_saved, files) IN
       /\ files' = r.files
       /\ data_saved' = r.data_saved
       /\ lastOp' = Called("export_data", r.files # files)
    /\ UNCHANGED <<config, locals, use_ph_meter, use_keithley, ph_meter,
                   keithley, data_buffer, experiment_running, pc, clock,
                   phaseLog, readLog, io, cause, intAt, stopSnap, faults>>

\* on_close of either class (DataCollector.on_close has no output-off write
\* of its own); sys.exit(0) ends the process.
OnCloseCall ==
    /\ CanCall
    /\ \E failing \in FailingSets(faults, ph_meter, keithley) :
          LET c0 == IF impl = "unified" THEN OnCloseOff(keithley, io) ELSE io
              c == close(ph_meter, keithley, c0, failing)
              r == IF OnCloseExports(data_buffer, data_saved)
                   THEN ExportFor(impl, data_buffer, data_saved, files)
                   ELSE [files |-> files, data_saved |-> data_saved]
          IN  /\ experiment_running' = FALSE
              /\ ph_meter' = c.ph_meter
              /\ keithley' = c.keithley
              /\ io' = c.io
              /\ files' = r.files
              /\ data_saved' = r.data_saved
              /\ faults' = faults + Cardinality(failing)
              /\ lastOp' = Called("on_close", r.files # files)
    /\ cause' = "close"
    /\ pc' = "exited"
    /\ UNCHANGED <<config, locals, use_ph_meter, use_keithley, data_buffer,
                   clock, phaseLog, readLog, intAt, stopSnap>>

NextCollector ==
    \/ CollectUnified
    \/ CollectLegacy
    \/ ExportCall
    \/ OnCloseCall

SpecCollector == InitCollector /\ [][NextCollector]_vars

----------------------------------------------------------------------------
(* Sample merge and record buffer: C7, C8 *)

\* A field of a sample is absent when its key is missing or its value None.
Absent(d, h) == h \notin DOMAIN d \/ d[h] = None

IsPrefix(a, b) == Len(a) <= Len(b) /\ SubSeq(b, 1, Len(a)) = a

C8_FieldIndependence ==
    /\ Len(readLog) = Len(data_buffer)
    /\ \A i \in 1..Len(data_buffer) :
          LET d == data_buffer[i]
              r == readLog[i]
          IN  /\ IF r.ph = None
                 THEN Absent(d, "pH") /\ Absent(d, "temperature")
                 ELSE /\ ~Absent(d, "pH") /\ ~Absent(d, "temperature")
                      /\ d["pH"] = Value(r.ph).pH
                      /\ d["temperature"] = Value(r.ph).temperature
              /\ IF r.k = None
                 THEN Absent(d, "voltage") /\ Absent(d, "current")
                 ELSE /\ ~Absent(d, "voltage") /\ ~Absent(d, "current")
                      /\ d["voltage"] = Value(r.k).voltage
                      /\ d["current"] = Value(r.k).current
              /\ \A h \in {"pH", "temperature", "voltage", "current"} :
                    h \in DOMAIN d => d[h] # Num(0)

\* The source-measure reader returned None on two polls running, then the pH
\* reading of the third poll is stored beside a present voltage.
C8_Witness ==
    /\ impl = "unified"
    /\ Len(data_buffer) = 3
    /\ readLog[1].k = None /\ readLog[1].ph # None
    /\ readLog[2].k = None /\ readLog[2].ph # None
    /\ readLog[3].k # None /\ readLog[3].ph # None
    /\ data_buffer[2]["pH"] # data_buffer[3]["pH"]

----------------------------------------------------------------------------
(* Exporter: C9, C10 *)

\* C9: a call of export_data made when data_saved is true writes no file and
\* leaves data_saved true and data_buffer unchanged; the number of CSV/PNG
\* pairs is one when data_saved is true and none otherwise.
C9_ExportIdempotent ==
    /\ [](Len(files) = (IF data_saved THEN 1 ELSE 0))
    /\ [][(lastOp'.name = "export_data" /\ data_saved)
             => /\ files' = files
                /\ data_saved'
                /\ data_buffer' = data_buffer
                /\ ~lastOp'.wrote]_vars

\* Two consecutive export_data calls on a non-empty buffer
C9_Witness ==
    /\ lastOp.name = "export_data"
    /\ lastOp.prev = "export_data"
    /\ data_buffer # <<>>
    /\ data_saved
    /\ Len(files) = 1

\* C10: the file a call has just written has the fixed header, one row per
\* sample in buffer order, and a cell is empty exactly when the sample's
\* field is absent (None or missing key); every file on disk keeps that
\* pattern for the samples it was written from.
C10_CsvRoundTrip ==
    /\ lastOp.wrote => Len(files[Len(files)].rows) = Len(data_buffer)
    /\ \A k \in 1..Len(files) :
          LET f == files[k] IN
              /\ f.header = <<"absolute_time", "elapsed_time", "current",
                              "voltage", "pH", "temperature", "cycle_number">>
              /\ Len(f.rows) <= Len(data_buffer)
              /\ \A i \in 1..Len(f.rows) :
                    /\ DOMAIN f.rows[i] = HeaderSet
                    /\ f.rows[i]["absolute_time"] =
                          data_buffer[i]["absolute_time"][2]
                    /\ \A h \in HeaderSet :
                          (f.rows[i][h] = "") <=> Absent(data_buffer[i], h)

\* One sample with every reading, one without pH/temperature, one without
\* voltage/current, exported by the call that just returned
C10_Witness ==
    /\ lastOp.name = "export_data" /\ lastOp.wrote
    /\ Len(files[1].rows) = 3
    /\ \E i, j, k \in 1..3 :
          /\ \A h \in HeaderSet : files[1].rows[i][h] # ""
          /\ files[1].rows[j]["pH"] = "" /\ files[1].rows[j]["voltage"] # ""
          /\ files[1].rows[k]["pH"] # "" /\ files[1].rows[k]["voltage"] = ""


----------------------------------------------------------------------------
(* A collector from its construction: C11 *)

\* The collector after __init__: the caller chose the use flags, no port is
\* open.  DataCollector.__init__ exits when both flags are false.
InitConstructed ==
    /\ impl \in {"unified", "legacy"}
    /\ numPulses = 0
    /\ anodicFirst = TRUE
    /\ use_ph_meter \in BOOLEAN
    /\ use_keithley \in BOOLEAN
    /\ impl = "legacy" => use_ph_meter \/ use_keithley
    /\ ph_meter = "None"
    /\ keithley = "None"
    /\ data_buffer = <<>>
    /\ experiment_running = TRUE
    /\ data_saved = FALSE
    /\ pc = "constructed"
    /\ cycle = 0
    /\ phase = 0
    /\ start_time = 0
    /\ ph_data = None
    /\ keithley_data = None
    /\ clock = 0
    /\ files = <<>>
    /\ phaseLog = <<>>
    /\ readLog = <<>>
    /\ io = NoIO
    /\ cause = "none"
    /\ intAt = None
    /\ stopSnap = None
    /\ faults = 0
    /\ lastOp = NoOp

\* The caller runs initialize_instruments of its collector class; an
\* exception that leaves the method ends the caller's use of the collector.
InitializeCall ==
    /\ pc = "constructed"
    /\ \E po \in InitOutcomes, ko \in InitOutcomes :
          LET r == IF impl = "unified"
                   THEN initialize_instruments(use_ph_meter, use_keithley,
                                               po, ko)
                   ELSE DC_initialize_instruments(use_ph_meter, use_keithley,
                                                  po, ko)
          IN  /\ ph_meter' = r.ph_meter
              /\ use_ph_meter' = r.use_ph_meter
              /\ keithley' = r.keithley
              /\ use_keithley' = r.use_keithley
              /\ io' = InitFailures(io, use_ph_meter, use_keithley, po, ko)
              /\ pc' = (IF r.raised THEN "raised" ELSE "api")
    /\ lastOp' = Called("initialize_instruments", FALSE)
    /\ UNCHANGED <<config, locals, data_buffer, experiment_running,
                   data_saved, clock, files, phaseLog, readLog, cause,
                   intAt, stopSnap, faults>>

NextInit ==
    \/ InitializeCall
    \/ CollectUnified
    \/ CollectLegacy
    \/ ExportCall
    \/ OnCloseCall

SpecInit == InitConstructed /\ [][NextInit]_vars

\* C11: a failure to open or configure either instrument never raises out
\* of initialize_instruments, in either collector class: the instrument that
\* failed has its use flag cleared, and an instrument that did not fail and
\* was enabled is initialised (flag set, port open).
C11_InitFailureDemotes ==
    /\ pc # "raised"
    /\ pc # "constructed" =>
          /\ io.phInitFail > 0 => ~use_ph_meter
          /\ io.kInitFail > 0 => ~use_keithley
          /\ use_ph_meter => ph_meter # "None"
          /\ use_keithley => keithley # "None"

----------------------------------------------------------------------------
(* Session lifecycle and shutdown: C12 - C19 *)

\* C12: when initialize_instruments leaves both use flags false, main()
\* runs no waveform phase and never calls collect_data_point.
C12_NoInstrumentAborts ==
    (pc # "initialize" /\ ~use_ph_meter /\ ~use_keithley) =>
        /\ phaseLog = <<>>
        /\ io.started = 0
        /\ pc \notin PollPcs

\* The polls of a session that completes normally
TotalPolls == numPulses * (AnodicTicks + CathodicTicks + RestTicks)

\* Poll i of the session failed on an instrument that was enabled and had
\* a port.
PhPollFailed(i) ==
    use_ph_meter /\ ph_meter # "None" /\ readLog[i].ph = None

KeithleyPollFailed(i) ==
    use_keithley /\ keithley # "None" /\ readLog[i].k = None

\* C13: a poll failure never propagates.  No error leaves the try block of
\* main() from inside a reader; a poll whose reader returned None still
\* appended its sample, with that instrument's fields absent; and a session
\* that nothing else stopped has made all its polls and exported all of them.
C13_PollFailureContained ==
    /\ cause = "error" => Value(intAt).pc \in {"configure", "set_level"}
    /\ Len(readLog) = Len(data_buffer)
    /\ \A i \in 1..Len(readLog) :
          /\ readLog[i].ph = None =>
                Absent(data_buffer[i], "pH")
                /\ Absent(data_buffer[i], "temperature")
          /\ readLog[i].k = None =>
                Absent(data_buffer[i], "voltage")
                /\ Absent(data_buffer[i], "current")
    /\ (Terminated /\ cause \notin {"interrupt", "close", "error"}) =>
          /\ cause = "normal"
          /\ Len(data_buffer) = TotalPolls
          /\ Len(files) = 1
          /\ Len(files[1].rows) = TotalPolls

\* A poll failed on a working instrument, later polls followed, and the
\* session completed and exported.
C13_Witness ==
    /\ Terminated
    /\ cause = "normal"
    /\ Len(files) = 1
    /\ \E i \in 1..Len(readLog) :
          /\ i < Len(readLog)
          /\ PhPollFailed(i) \/ KeithleyPollFailed(i)
          /\ Len(files[1].rows) > i

KeithleySteps == {"k_off", "k_clear", "k_close"}

\* C14: in close(), a failure of the pH port's close does not keep the
\* source-measure port from being commanded off and closed, a failure on the
\* source-measure port does not keep the pH port from being closed, and no
\* exception leaves close().
C14_CloseFailuresIndependent ==
    \A i \in 1..Len(io.closes) :
       LET e == io.closes[i] IN
          /\ ~e.raised
          /\ (e.ph # "None" /\ "ph_close" \in e.failing /\ e.k = "open"
                /\ e.failing \cap KeithleySteps = {}) =>
                e.offTried /\ e.kAfter = "closed"
          /\ (e.ph = "open" /\ "ph_close" \notin e.failing) =>
                e.phAfter = "closed"

\* The session has ended after a close() in which the pH port's close raised
\* with both ports open, and the source-measure port was closed all the same.
C14_Witness ==
    /\ Terminated
    /\ \E i \in 1..Len(io.closes) :
          /\ io.closes[i].ph = "open"
          /\ io.closes[i].k = "open"
          /\ "ph_close" \in io.closes[i].failing
          /\ io.closes[i].kAfter = "closed"

\* C15: a failing output-off write or buffer clear during teardown is
\* tolerated and the remaining steps still run: by the end of shutdown
\* close() has been called on every port that was opened.
C15_EveryPortCloseAttempted ==
    Terminated =>
        /\ ph_meter # "None" => io.phclose >= 1
        /\ keithley # "None" => io.kclose >= 1

\* C16: no export on an empty buffer.  On every termination path, a session
\* with numPulses = 0 included, a CSV/PNG pair is written and data_saved is
\* set only when data_buffer is non-empty.
C16_NoExportOfEmptyBuffer ==
    /\ data_saved => data_buffer # <<>>
    /\ \A i \in 1..Len(files) : files[i].rows # <<>>

\* C17: the run flags are one-way latches.  A session starts with
\* experiment_running true and data_saved false; experiment_running never
\* goes from false to true, data_saved never from true to false, and
\* data_saved becomes true only in a step in which an export wrote its files.
C17_FlagsAreLatches ==
    /\ (experiment_running = TRUE /\ data_saved = FALSE)
    /\ [][/\ ~experiment_running => ~experiment_running'
          /\ data_saved => data_saved'
          /\ (~data_saved /\ data_saved') => Len(files') = Len(files) + 1
         ]_vars

\* Both flags have flipped: the window was closed and on_close exported.
C17_Witness ==
    /\ Terminated
    /\ ~experiment_running
    /\ data_saved
    /\ Len(files) = 1

\* C18: on every termination trigger (normal completion, KeyboardInterrupt,
\* window close) experiment_running has been set false by the time the
\* shutdown has finished: no session ends with experiment_running true.
C18_StoppedWhenTerminated ==
    (Terminated /\ cause \in {"normal", "interrupt", "close"}) =>
        ~experiment_running

\* C19: on every termination path the output-off write and the closing of
\* the ports precede the export: no file pair exists before close() has run
\* and, when a source-measure port exists, before the output was commanded
\* off.
C19_TeardownBeforeExport ==
    files # <<>> =>
        /\ io.closeCalls >= 1
        /\ keithley # "None" => io.off >= 1

----------------------------------------------------------------------------
(* A session whose export can be preempted by the close event: C20 *)

\* export_data of main() (line 105) in its three steps: the data_saved test
\* (lines 256-257), the writing of the CSV and the PNG (lines 259-292), and
\* the assignment data_saved = True (line 294).
ExportCheck ==
    /\ pc = "export"
    /\ IF data_saved
       THEN cause' = "normal" /\ pc' = "finally"
       ELSE cause' = cause /\ pc' = "export_write"
    /\ UNCHANGED <<config, locals, use_ph_meter, use_keithley, ph_meter,
                   keithley, data_buffer, experiment_running, data_saved,
                   clock, files, phaseLog, readLog, io, intAt, stopSnap,
                   faults, lastOp>>

ExportWrite ==
    /\ pc = "export_write"
    /\ files' = Append(files, CsvFile(data_buffer))
    /\ pc' = "export_mark"
    /\ UNCHANGED <<config, locals, use_ph_meter, use_keithley, ph_meter,
                   keithley, data_buffer, experiment_running, data_saved,
                   clock, phaseLog, readLog, io, cause, intAt, stopSnap,
                   faults, lastOp>>

ExportMark ==
    /\ pc = "export_mark"
    /\ data_saved' = TRUE
    /\ cause' = "normal"
    /\ pc' = "finally"
    /\ UNCHANGED <<config, locals, use_ph_meter, use_keithley, ph_meter,
                   keithley, data_buffer, experiment_running, clock, files,
                   phaseLog, readLog, io, intAt, stopSnap, faults, lastOp>>

\* Positions of main() inside export_data after its data_saved test passed
\* and before data_saved is set
InExport == {"export_write", "export_mark"}

\* The close event is delivered while main() is inside export_data.
OnClosePreempt ==
    /\ pc \in InExport
    /\ on_close

NextPreempt ==
    \/ InitializeInstruments
    \/ ConfigureOk
    \/ ConfigureRaises
    \/ CycleHead
    \/ SetLevel
    \/ SetLevelRaises
    \/ PollCheck
    \/ ReadPh
    \/ ReadKeithley
    \/ AppendSample
    \/ UpdatePlots
    \/ Sleep
    \/ AbortCheck
    \/ ExportCheck
    \/ ExportWrite
    \/ ExportMark
    \/ KeyboardInterrupt
    \/ OnClose
    \/ OnClosePreempt
    \/ Finally

SpecPreempt == Init /\ [][NextPreempt]_vars

----------------------------------------------------------------------------
(* collect_data_point and the readers, one statement at a time: C21 - C23 *)

\* collect_data_point with the sample appended before the second reader
CollectSteps_append_early == <<"read_ph", "append", "read_keithley">>

\* The statements of collect_data_point in program order
\* (unified_data_collector.py lines 174, 183, 198; data_collector.py lines
\* 252, 262, 278)
CollectSteps == <<"read_ph", "read_keithley", "append">>

\* The position after statement p: the next statement, or back in the caller
StepAfter(p) ==
    LET i == CHOOSE j \in 1..Len(CollectSteps) : CollectSteps[j] = p
    IN  IF i = Len(CollectSteps) THEN "api" ELSE CollectSteps[i + 1]

\* What the next reads of the pH port deliver: bad lines, then good ones
\* from read number k on.
PollLinesAt(t) ==
    {[i \in 1..(MaxAttempts + 1) |-> IF i < k THEN bad ELSE good] :
        k \in {1, MaxAttempts, MaxAttempts + 1, MaxAttempts + 2},
        bad \in {l \in LinesAt(t) : l.kind \in {"header", "garbage", "timeout"}},
        good \in {l \in LinesAt(t) : l.kind \in {"full", "partial"}}}

\* The pH reader as the class under test calls it
PhReaderCall(i, use, port, lines) ==
    IF i = "unified" THEN read_ph_data_call(use, port, lines[1])
                     ELSE DC_read_ph_data_call(use, port, lines)

\* The source-measure reader as the class under test calls it
KeithleyReaderCall(i, use, port, reply, timer) ==
    IF i = "unified" THEN read_keithley_data_call(use, port, reply, timer)
                     ELSE DC_read_keithley_data_call(port, reply, timer)

\* A caller enters collect_data_point.
PollBegin ==
    /\ pc = "api"
    /\ Len(data_buffer) < MaxSamples
    /\ io' = [io EXCEPT !.started = @ + 1, !.ops = <<>>]
    /\ ph_data' = None
    /\ keithley_data' = None
    /\ pc' = CollectSteps[1]
    /\ UNCHANGED <<config, cycle, phase, start_time, use_ph_meter,
                   use_keithley, ph_meter, keithley, data_buffer,
                   experiment_running, data_saved, clock, files, phaseLog,
                   readLog, cause, intAt, stopSnap, faults, lastOp>>

\* The pH part of collect_data_point: UnifiedDataCollector calls the reader
\* always, DataCollector only when use_ph_meter is set.
PollReadPh ==
    /\ pc = "read_ph"
    /\ \E lines \in PollLinesAt(clock) :
          IF impl = "unified" \/ use_ph_meter
          THEN LET r == PhReaderCall(impl, use_ph_meter, ph_meter, lines)
               IN  /\ ph_data' = r.value
                   /\ io' = [io EXCEPT !.ops = @ \o <<"call_ph">> \o r.ops]
          ELSE UNCHANGED <<ph_data, io>>
    /\ pc' = StepAfter(pc)
    /\ UNCHANGED <<config, cycle, phase, start_time, keithley_data,
                   use_ph_meter, use_keithley, ph_meter, keithley,
                   data_buffer, experiment_running, data_saved, clock, files,
                   phaseLog, readLog, cause, intAt, stopSnap, faults, lastOp>>

\* The source-measure part of collect_data_point
PollReadKeithley ==
    /\ pc = "read_keithley"
    /\ \E reply \in RepliesAt(clock) :
          IF impl = "unified" \/ use_keithley
          THEN LET r == KeithleyReaderCall(impl, use_keithley, keithley,
                                           reply, clock)
               IN  /\ keithley_data' = r.value
                   /\ io' = [io EXCEPT !.ops = @ \o <<"call_k">> \o r.ops]
          ELSE UNCHANGED <<keithley_data, io>>
    /\ pc' = StepAfter(pc)
    /\ UNCHANGED <<config, cycle, phase, start_time, ph_data, use_ph_meter,
                   use_keithley, ph_meter, keithley, data_buffer,
                   experiment_running, data_saved, clock, files, phaseLog,
                   readLog, cause, intAt, stopSnap, faults, lastOp>>

\* self.data_buffer.append(data_point); the call returns after update_plots.
PollAppend ==
    /\ pc = "append"
    /\ data_buffer' =
          buffer_append(data_buffer,
                        IF impl = "unified"
                        THEN data_point(clock, ph_data, keithley_data, None)
                        ELSE DC_data_point(clock, EpochTicks + clock,
                                           use_ph_meter, use_keithley,
                                           ph_data, keithley_data, None))
    /\ readLog' = Append(readLog, [ph |-> ph_data, k |-> keithley_data])
    /\ io' = [io EXCEPT !.ops = Append(@, "append"), !.collects = @ + 1]
    /\ clock' = clock + 1
    /\ pc' = StepAfter(pc)
    /\ UNCHANGED <<config, locals, use_ph_meter, use_keithley, ph_meter,
                   keithley, experiment_running, data_saved, files, phaseLog,
                   cause, intAt, stopSnap, faults, lastOp>>

\* A caller calls read_ph_data itself.
ReadPhCall ==
    /\ pc = "api"
    /\ \E lines \in PollLinesAt(clock) :
          LET r == PhReaderCall(impl, use_ph_meter, ph_meter, lines)
          IN  /\ ph_data' = r.value
              /\ io' = [io EXCEPT !.ops = <<"call_ph">> \o r.ops]
    /\ UNCHANGED <<config, cycle, phase, start_time, keithley_data,
                   use_ph_meter, use_keithley, ph_meter, keithley,
                   data_buffer, experiment_running, data_saved, pc, clock,
                   files, phaseLog, readLog, cause, intAt, stopSnap, faults,
                   lastOp>>

\* A caller calls read_keithley_data itself.
ReadKeithleyCall ==
    /\ pc = "api"
    /\ \E reply \in RepliesAt(clock) :
          LET r == KeithleyReaderCall(impl, use_keithley, keithley, reply,
                                      clock)
          IN  /\ keithley_data' = r.value
              /\ io' = [io EXCEPT !.ops = <<"call_k">> \o r.ops]
    /\ UNCHANGED <<config, cycle, phase, start_time, ph_data, use_ph_meter,
                   use_keithley, ph_meter, keithley, data_buffer,
                   experiment_running, data_saved, pc, clock, files,
                   phaseLog, readLog, cause, intAt, stopSnap, faults, lastOp>>

NextPoll ==
    \/ InitializeCall
    \/ PollBegin
    \/ PollReadPh
    \/ PollReadKeithley
    \/ PollAppend
    \/ ReadPhCall
    \/ ReadKeithleyCall

SpecPoll == InitConstructed /\ [][NextPoll]_vars

PhOps == {"call_ph", "ph_read"}
KeithleyOpNames == {"call_k", "k_write", "k_query"}

\* The number of entries of the sequence ops that lie in the set S
RECURSIVE CountIn(_, _)
CountIn(ops, S) ==
    IF ops = <<>> THEN 0
    ELSE (IF Head(ops) \in S THEN 1 ELSE 0) + CountIn(Tail(ops), S)

\* C21: within every collect_data_point call the pH reader is attempted
\* first and the source-measure reader second, and the sample is appended
\* only after both: nothing of the pH reader follows anything of the
\* source-measure reader, the append is the last event of the call, and at
\* the append every reader the class calls has been called once.
C21_ReadOrderThenAppend ==
    LET ops == io.ops IN
    /\ \A i, j \in 1..Len(ops) :
          (i < j /\ ops[i] \in KeithleyOpNames) => ops[j] \notin PhOps
    /\ \A i \in 1..Len(ops) : ops[i] = "append" => i = Len(ops)
    /\ (Len(ops) > 0 /\ ops[Len(ops)] = "append") =>
          /\ (impl = "unified" \/ use_ph_meter) =>
                CountIn(ops, {"call_ph"}) = 1
          /\ (impl = "unified" \/ use_keithley) =>
                CountIn(ops, {"call_k"}) = 1
    /\ Len(data_buffer) = io.collects

\* A call in which both ports were polled has appended its sample.
C21_Witness ==
    /\ pc = "api"
    /\ Len(data_buffer) > 1
    /\ io.ops[Len(io.ops)] = "append"
    /\ CountIn(io.ops, {"ph_read"}) > 0
    /\ CountIn(io.ops, {"k_query"}) > 0

\* C22: one call of read_ph_data performs at most five reads of the pH
\* port whatever the port delivers (header lines, unparsable lines and read
\* errors all count), and returns a parsed reading or None.
C22_PhReadsBounded ==
    /\ CountIn(io.ops, {"ph_read"}) <= MaxAttempts * CountIn(io.ops, {"call_ph"})
    /\ ph_data = None \/ ph_data[1] = "some"
    /\ (impl = "unified" /\ CountIn(io.ops, {"call_ph"}) = 1) =>
          CountIn(io.ops, {"ph_read"}) <= 1

\* A DataCollector call that used up all five reads and returned None while
\* the port had a good line for a sixth read
C22_Witness ==
    /\ impl = "legacy"
    /\ io.ops = <<"call_ph", "ph_read", "ph_read", "ph_read", "ph_read",
                  "ph_read">>
    /\ ph_data = None
    /\ ph_meter = "open"

\* C23: the reader of a disabled instrument returns None and performs no
\* write, query or read on that instrument's port, even when a port object
\* exists.
C23_DisabledReaderTouchesNothing ==
    /\ (pc # "constructed" /\ ~use_ph_meter) =>
          /\ CountIn(io.ops, {"ph_read"}) = 0
          /\ ph_data = None
    /\ (pc # "constructed" /\ ~use_keithley) =>
          /\ CountIn(io.ops, {"k_write", "k_query"}) = 0
          /\ keithley_data = None

\* Both readers were called on instruments that were demoted after their
\* ports had been opened.
C23_Witness ==
    /\ ~use_ph_meter /\ ph_meter = "open"
    /\ ~use_keithley /\ keithley = "open"
    /\ CountIn(io.ops, {"call_ph"}) = 1
    /\ CountIn(io.ops, {"call_k"}) = 1

----------------------------------------------------------------------------
(* Time coordinate of the samples: C24, C25 *)

\* C24: every sample appended by collect_data_point carries an
\* elapsed_time: the timer of the source-measure unit when its reading is
\* present, a local clock otherwise; elapsed_time is never absent.
C24_ElapsedTimeNeverAbsent ==
    \A i \in 1..Len(data_buffer) : ~Absent(data_buffer[i], "elapsed_time")

\* C25: insertion order of data_buffer is time order: of two samples whose
\* elapsed_time is present the earlier one has the smaller or equal value,
\* also when the source-measure reading is present on some polls only.
C25_BufferInTimeOrder ==
    \A i, j \in 1..Len(data_buffer) :
       (/\ i < j
        /\ ~Absent(data_buffer[i], "elapsed_time")
        /\ ~Absent(data_buffer[j], "elapsed_time")) =>
           data_buffer[i]["elapsed_time"][2] <= data_buffer[j]["elapsed_time"][2]

----------------------------------------------------------------------------
(* Writes to the source-measure port over a session: C26 - C28 *)

\* C26: once close() has been called on a port, nothing more is written
\* to, queried from or read from that port for the rest of the session, on
\* any termination path.
C26_NoOperationAfterClose ==
    io.closedOps = 0

\* C27: after initialize_instruments has demoted the source-measure
\* instrument with its port opened, nothing writes to that port during
\* configuration, the phase sequencer or teardown.
C27_NoWriteAfterDemotion ==
    (~use_keithley /\ keithley # "None") =>
        /\ io.demoted = 0
        /\ io.off = 0

\* C28: on every termination path of main() on which the source-measure
\* output was switched on, the output-off command is issued at least once
\* after the last output-on command before the session ends.
C28_OffAfterLastOn ==
    (Terminated /\ io.on > 0) => (io.outputOn = 0 /\ io.off >= 1)

\* A level write of the sequencer raised after the output had been switched
\* on, and the session ended with the output commanded off.
C28_Witness ==
    /\ Terminated
    /\ cause = "error"
    /\ io.on > 0
    /\ Len(data_buffer) > 0
    /\ io.outputOn = 0

====
